---- MODULE Spec2Model ----
(***************************************************************************)
(* A model of meterstick's models.py: the packed-matrix primitive          *)
(* symmetrize_triangular, and the mode dispatch Model.compute_through_sql  *)
(* with the fits it starts (the local fit on SQL-computed children and the *)
(* pushdown "magic" fit of each Model class).                              *)
(***************************************************************************)
EXTENDS Integers, Sequences, FiniteSets, TLC

VARIABLES
  \* symmetrize_triangular(tril_elements)
  tril_elements,   \* the packed list passed in
  symOut,          \* what the call did: nothing yet, raised, or returned a matrix
  \* Model.compute_through_sql(table, split_by, execute, mode)
  pc,              \* the position of the call
  mode,            \* the mode argument
  self,            \* the Model instance, as its constructor left it
  table,           \* the table argument: as passed, or wrapped by self.where
  events,          \* the fit strategies started, failed and finished so far, in order
  executeCalls,    \* calls of the injected execute so far
  queriesLeft,     \* the queries the running pushdown fit still has to issue, in order
  queries,         \* the queries handed to execute so far, in order
  n_y,             \* distinct response values the logistic fit counted, once it has
  exc,             \* the exception in flight inside the try block, if any
  res,             \* the value a fit returned, if any
  execRaised,      \* the error execute raised during this call, if any
  outcome,         \* how the call ended
  \* newtons_method(coef, grads, hess, tol, max_iter, conds), with the grads and
  \* hess callbacks LogisticRegression.compute_on_sql_magic_mode gives it
  npc,             \* the position inside newtons_method
  split_by,        \* whether the fit has split_by columns
  n_slice,         \* len(coef): the number of groups
  k,               \* len(xs): the number of coefficients, the intercept included
  tol,             \* the tol argument
  max_iter,        \* the max_iter argument
  target,          \* the data set: where its optimum lies
  coef,            \* the n_slice x k array of coefficients
  converged,       \* the converged flag of every group
  iter,            \* iterations of the for loop started so far
  newtonExecutes,  \* execute calls made by the callbacks so far
  columns,         \* the column list of the last query
  gradients,       \* self._gradients
  h,               \* the list of Hessians hess returned
  warned,          \* the groups named in the warning printed, if one was
  newtonOut,       \* how newtons_method ended
  call,            \* which fit on the instance this is: the first or the second
  jGrads,          \* j: the list of gradients grads returned
  at,              \* the execute call (fit, iteration) that produced
                   \* self._gradients, h and j
  firstFit,        \* how the first fit ended and what it returned
  \* The sufficient-statistics functions (133-240) and the closed-form fit
  \* (389-392, 426-493)
  called,          \* which of the functions has been called, if any
  sm,              \* the m argument: a LinearRegression or a Ridge
  xs,              \* the feature columns
  argFitIntercept, \* get_sufficient_stats_elements' fit_intercept argument
  argNormalize,    \* get_sufficient_stats_elements' normalize argument
  sufficient_stats, \* the statistics handed in: what it is, and its rows
  data,            \* the data behind the table
  statsOut,        \* what the function called did
  \* count_features(m), 887-905
  metric,          \* the metric tree passed in
  countOut,        \* the width returned, once it has
  \* get_grads_and_hess_query(coef, condition) of a LogisticRegression, 762-827
  lr,              \* the instance: its penalty, k and fit_intercept
  slice_coef,      \* the coef argument: one coefficient per entry of xs
  slice_cond,      \* the condition argument
  gradsHess        \* the columns returned, each with the penalty term added to it

symVars == <<tril_elements, symOut>>
newtonVars == <<npc, split_by, n_slice, k, tol, max_iter, target, coef, converged,
                iter, newtonExecutes, columns, gradients, h, warned, newtonOut,
                call, jGrads, at, firstFit>>
statsVars == <<called, sm, xs, argFitIntercept, argNormalize, sufficient_stats,
               data, statsOut>>
countVars == <<metric, countOut>>
penaltyVars == <<lr, slice_coef, slice_cond, gradsHess>>
sqlVars == <<pc, mode, self, table, events, executeCalls, queriesLeft, queries,
             n_y, exc, res, execRaised, outcome>>
vars == <<tril_elements, symOut, pc, mode, self, table, events, executeCalls,
          queriesLeft, queries, n_y, exc, res, execRaised, outcome, newtonVars,
          statsVars, countVars, penaltyVars>>

----------------------------------------------------------------------------
(* Bounds *)

\* Longest packed list tried (6 = a full 3 x 3 upper triangle).
MaxPacked == 6
\* Packed values are drawn from 1..MaxVal (nonzero, so a doubled entry shows).
MaxVal == 2

----------------------------------------------------------------------------
(* symmetrize_triangular, models.py 243-259 *)

\* floor(sqrt(m)), as int(np.floor(m ** 0.5)) computes it for small m.
ISqrtFloor(m) == CHOOSE n \in 0..m : n * n <= m /\ (n + 1) * (n + 1) > m

\* n = int(np.floor((2 * len(tril_elements)) ** 0.5))
SymN(len) == ISqrtFloor(2 * len)

SymShapeError_OffByOne(n, len) == n * (n - 1) # 2 * len
\* if n * (n + 1) / 2 != len(tril_elements): raise ValueError
SymShapeError(n, len) == n * (n + 1) # 2 * len

\* np.triu_indices(n): the (row, column) pairs of the upper triangle, 0-based,
\* row by row.
RECURSIVE TriuRows(_, _)
TriuRows(i, n) ==
  IF i >= n THEN <<>>
  ELSE [c \in 1..(n - i) |-> <<i, i + c - 1>>] \o TriuRows(i + 1, n)

triu_indices(n) == TriuRows(0, n)

\* sym = np.zeros([n, n]); sym[np.triu_indices(n)] = tril_elements
FillUpper(n, elems) ==
  LET idx == triu_indices(n)
  IN [i \in 1..n |-> [j \in 1..n |->
        IF \E p \in 1..Len(idx) : idx[p] = <<i - 1, j - 1>>
        THEN elems[CHOOSE p \in 1..Len(idx) : idx[p] = <<i - 1, j - 1>>]
        ELSE 0]]

Transpose(m) == [i \in 1..Len(m) |-> [j \in 1..Len(m) |-> m[j][i]]]

\* np.diag(sym.diagonal())
DiagOf(m) == [i \in 1..Len(m) |-> [j \in 1..Len(m) |-> IF i = j THEN m[i][i] ELSE 0]]

SymCombine_NoDiag(sym) ==
  [i \in 1..Len(sym) |-> [j \in 1..Len(sym) |-> sym[i][j] + Transpose(sym)[i][j]]]
\* sym + sym.T - np.diag(sym.diagonal())
SymCombine(sym) ==
  [i \in 1..Len(sym) |-> [j \in 1..Len(sym) |->
     sym[i][j] + Transpose(sym)[i][j] - DiagOf(sym)[i][j]]]

NotCalled == [kind |-> "none", matrix |-> <<>>]

symmetrize_triangular(elems) ==
  LET n == SymN(Len(elems))
  IN IF SymShapeError(n, Len(elems))
     THEN [kind |-> "raise", matrix |-> <<>>]
     ELSE [kind |-> "return", matrix |-> SymCombine(FillUpper(n, elems))]

RECURSIVE SeqsUpTo(_, _)
SeqsUpTo(S, n) ==
  IF n = 0 THEN {<<>>}
  ELSE LET shorter == SeqsUpTo(S, n - 1)
       IN shorter \cup {Append(s, v) : s \in {t \in shorter : Len(t) = n - 1}, v \in S}

IdleCount ==
  /\ metric = [type |-> "none"]
  /\ countOut = <<>>

IdlePenalty ==
  /\ lr = [penalty |-> "none"]
  /\ slice_coef = <<>>
  /\ slice_cond = <<>>
  /\ gradsHess = [kind |-> "none"]

IdleStats ==
  /\ called = "none"
  /\ sm = [class |-> "none"]
  /\ xs = <<>>
  /\ argFitIntercept = <<>>
  /\ argNormalize = <<>>
  /\ sufficient_stats = [type |-> "none", len |-> 0]
  /\ data = [n_obs |-> 0]
  /\ statsOut = [kind |-> "none"]

IdleNewton ==
  /\ npc = "idle"
  /\ split_by = FALSE
  /\ n_slice = 0
  /\ k = 0
  /\ tol = 0
  /\ max_iter = 0
  /\ target = 0
  /\ coef = <<>>
  /\ converged = <<>>
  /\ iter = 0
  /\ newtonExecutes = 0
  /\ columns = <<>>
  /\ gradients = <<>>
  /\ h = <<>>
  /\ warned = <<>>
  /\ newtonOut = "pending"
  /\ call = 1
  /\ jGrads = <<>>
  /\ at = [gradients |-> <<1, 0>>, h |-> <<1, 0>>, j |-> <<1, 0>>]
  /\ firstFit = <<>>

IdleSql ==
  /\ pc = "idle"
  /\ mode = "None"
  /\ self = [class |-> "none"]
  /\ table = "none"
  /\ events = <<>>
  /\ executeCalls = 0
  /\ queriesLeft = <<>>
  /\ queries = <<>>
  /\ n_y = <<>>
  /\ exc = <<>>
  /\ res = <<>>
  /\ execRaised = <<>>
  /\ outcome = [kind |-> "pending", value |-> <<>>, exc |-> <<>>]

InitSym ==
  /\ tril_elements \in SeqsUpTo(1..MaxVal, MaxPacked)
  /\ symOut = NotCalled
  /\ IdleSql
  /\ IdleNewton
  /\ IdleStats
  /\ IdleCount
  /\ IdlePenalty

CallSymmetrize ==
  /\ symOut.kind = "none"
  /\ symOut' = symmetrize_triangular(tril_elements)
  /\ UNCHANGED <<tril_elements, sqlVars, newtonVars, statsVars, countVars,
               penaltyVars>>

NextSym == CallSymmetrize

SpecSym == InitSym /\ [][NextSym]_vars

----------------------------------------------------------------------------
(* Claims about symmetrize_triangular *)

IsTriangular(len) == \E n \in 0..len : n * (n + 1) = 2 * len

\* C1: symmetrize_triangular raises exactly when the length of the packed list
\* is not a triangular number n(n+1)/2; when it returns, the matrix has n rows
\* of n entries with n(n+1)/2 equal to the length, so nothing is dropped or
\* padded.
C1_RaisesIffNotTriangular ==
  symOut.kind # "none" =>
    /\ (symOut.kind = "raise") <=> ~IsTriangular(Len(tril_elements))
    /\ symOut.kind = "return" =>
         LET n == Len(symOut.matrix)
         IN /\ n * (n + 1) = 2 * Len(tril_elements)
            /\ \A i \in 1..n : Len(symOut.matrix[i]) = n

\* Length 3 has returned a 2 x 2 matrix.
C1_Witness_Len3 ==
  /\ Len(tril_elements) = 3
  /\ symOut.kind = "return"
  /\ Len(symOut.matrix) = 2

\* The position (1-based) of entry (i, j), i <= j, of an n x n upper triangle
\* read row by row.
PackedPos(i, j, n) == (i - 1) * n - ((i - 1) * (i - 2)) \div 2 + (j - i) + 1

\* C2: the returned matrix is symmetric, and its upper triangle read row by
\* row, the diagonal included, is the packed list entry for entry (so a
\* diagonal entry is the packed value once, not twice).
C2_SymmetricUpperIsPacked ==
  symOut.kind = "return" =>
    LET m == symOut.matrix
        n == Len(m)
    IN /\ \A i, j \in 1..n : m[i][j] = m[j][i]
       /\ \A i, j \in 1..n : i <= j => m[i][j] = tril_elements[PackedPos(i, j, n)]

\* A 3 x 3 result whose packed list is not constant.
C2_Witness_ThreeByThree ==
  /\ symOut.kind = "return"
  /\ Len(symOut.matrix) = 3
  /\ tril_elements[1] # tril_elements[2]
  /\ symOut.matrix[2][1] = tril_elements[2]
  /\ symOut.matrix[3][3] = tril_elements[6]

----------------------------------------------------------------------------
(* Values of the Python program *)

\* An optional number: <<>> is None, <<v>> the number v.
None == <<>>
Num(v) == <<v>>

\* Python truthiness of an optional number: None and 0 are false.
Falsy(x) == x = None \/ x[1] = 0

\* l1_ratio is a fraction: Num(v) stands for v / L1Den.
L1Den == 2
\* l1_ratio values tried reach L1Over / L1Den below 0 and above 1.
L1Over == 1
\* intercept_scaling values tried are None and 0..MaxScale.
MaxScale == 2
\* The most queries one pushdown logistic fit issues (the response query, the
\* slices query and the Newton iterations).
MaxQueries == 3
\* The response column holds 0..MaxClasses distinct values.
MaxClasses == 3
\* Ridge's alpha is drawn from 0..MaxAlpha.
MaxAlpha == 2

L1Ratios == {None} \cup {Num(v) : v \in (0 - L1Over)..(L1Den + L1Over)}
Scalings == {None} \cup {Num(v) : v \in 0..MaxScale}
Penalties == {"l2", "l1", "elasticnet", "none"}
ClassWeights == {"None", "balanced"}
MultiClasses == {"auto", "multinomial"}
Classes == {"LinearRegression", "Ridge", "Lasso", "ElasticNet", "LogisticRegression"}
\* The mode argument: Python None is "None"; "other" is any unknown string.
Modes == {"None", "sql", "mixed", "magic", "", "other"}

\* An exception object: its class, what it is about, and its __cause__
\* (<<>> or <<e>>).
Exception(type, about, cause) == [type |-> type, about |-> about, cause |-> cause]

\* utils.MaybeBadSqlModeError(hint) from e
MaybeBadSqlModeError(hint, e) == Exception("MaybeBadSqlModeError", hint, <<e>>)

Pending == [kind |-> "pending", value |-> <<>>, exc |-> <<>>]
Return(v) == [kind |-> "return", value |-> v, exc |-> <<>>]
Raise(e) == [kind |-> "raise", value |-> <<>>, exc |-> <<e>>]

----------------------------------------------------------------------------
(* Construction, models.py 265-320 and 577-624 *)

\* Model.__init__ as the non-logistic classes call it. descendants_sql is what
\* self.all_computable_in_pure_sql(False) answers for this metric tree.
NewModel(class, where, descendants_sql, fit_intercept, normalize) ==
  [class |-> class, where |-> where, descendants_sql |-> descendants_sql,
   fit_intercept |-> fit_intercept, normalize |-> normalize]

\* Ridge.__init__ (398-424): Model.__init__, then self.alpha = alpha.
NewRidge(where, descendants_sql, alpha, fit_intercept, normalize) ==
  [class |-> "Ridge", where |-> where, descendants_sql |-> descendants_sql,
   fit_intercept |-> fit_intercept, normalize |-> normalize, alpha |-> alpha]

\* self.intercept_scaling = intercept_scaling or 1
StoredInterceptScaling(intercept_scaling) ==
  IF Falsy(intercept_scaling) THEN Num(1) ELSE intercept_scaling

\* LogisticRegression.__init__: the arguments go to the sklearn model as given,
\* and some are kept on the instance.
NewLogisticRegression(where, descendants_sql, penalty, intercept_scaling, class_weight, multi_class, l1_ratio) ==
  [class |-> "LogisticRegression", where |-> where,
   descendants_sql |-> descendants_sql,
   model |-> [intercept_scaling |-> intercept_scaling,
              class_weight |-> class_weight,
              multi_class |-> multi_class],
   penalty |-> penalty,
   intercept_scaling |-> StoredInterceptScaling(intercept_scaling),
   l1_ratio |-> l1_ratio]

Instances ==
  {NewModel(c, w, d, fi, nz) : c \in Classes \ {"LogisticRegression", "Ridge"},
                               w \in BOOLEAN, d \in BOOLEAN,
                               fi \in BOOLEAN, nz \in BOOLEAN}
  \cup
  {NewRidge(w, d, a, fi, nz) : w \in BOOLEAN, d \in BOOLEAN, a \in 0..MaxAlpha,
                              fi \in BOOLEAN, nz \in BOOLEAN}
  \cup
  {NewLogisticRegression(w, d, p, s, cw, mc, l1) :
     w \in BOOLEAN, d \in BOOLEAN, p \in Penalties, s \in Scalings,
     cw \in ClassWeights, mc \in MultiClasses, l1 \in L1Ratios}

----------------------------------------------------------------------------
(* Model.compute_through_sql, models.py 342-366 *)

\* Python's `not mode`.
NotMode(m) == m \in {"None", ""}

ModeError_MagicUnchecked(m, descendants_sql) ==
  IF m \notin {"None", "sql", "mixed", "magic"}
  THEN <<Exception("ValueError", "mode not supported", <<>>)>>
  ELSE IF m = "sql"
  THEN <<Exception("ValueError", "not computable in pure SQL", <<>>)>>
  ELSE <<>>
ModeError_SqlAllowed(m, descendants_sql) ==
  IF m \notin {"None", "sql", "mixed", "magic"}
  THEN <<Exception("ValueError", "mode not supported", <<>>)>>
  ELSE IF m = "magic" /\ ~descendants_sql
  THEN <<Exception("ValueError", "magic requires SQL descendants", <<>>)>>
  ELSE <<>>
\* Lines 343-350: the three checks on the mode, in order; <<>> when all pass.
ModeError(m, descendants_sql) ==
  IF m \notin {"None", "sql", "mixed", "magic"}
  THEN <<Exception("ValueError", "mode not supported", <<>>)>>
  ELSE IF m = "sql"
  THEN <<Exception("ValueError", "not computable in pure SQL", <<>>)>>
  ELSE IF m = "magic" /\ ~descendants_sql
  THEN <<Exception("ValueError", "magic requires SQL descendants", <<>>)>>
  ELSE <<>>

StrategyFor_PushdownFirst(m, descendants_sql) ==
  IF descendants_sql THEN "magic"
  ELSE IF m = "mixed" \/ NotMode(m) THEN "mixed"
  ELSE "none"
\* Lines 354 and 361: the strategy the call starts ("none": it falls off the
\* end of the function).
StrategyFor(m, descendants_sql) ==
  IF m = "mixed" \/ NotMode(m) THEN "mixed"
  ELSE IF descendants_sql THEN "magic"
  ELSE "none"

\* utils.apply_name_tmpl(self.name_tmpl, res)
apply_name_tmpl(r) == [r EXCEPT !.named = TRUE]

MixedHandlerOutcome_WrapAll(e, r) ==
  IF e = <<>> THEN Return(r)
  ELSE Raise(MaybeBadSqlModeError("magic", e[1]))
MixedHandlerOutcome_Propagate(e, r) ==
  IF e = <<>> THEN Return(r)
  ELSE Raise(e[1])
\* Lines 355-360: how the try block around compute_on_sql_mixed_mode ends, given
\* the exception it raised (e) or the value it returned (r).
MixedHandlerOutcome(e, r) ==
  IF e = <<>> THEN Return(r)
  ELSE IF e[1].type = "MaybeBadSqlModeError" THEN Raise(e[1])
  ELSE Raise(MaybeBadSqlModeError("magic", e[1]))

MagicHandlerOutcome_Propagate(e, r) ==
  IF e = <<>> THEN Return(<<apply_name_tmpl(r[1])>>)
  ELSE Raise(e[1])
\* Lines 362-366: how the try block around compute_on_sql_magic_mode ends.
MagicHandlerOutcome(e, r) ==
  IF e = <<>> THEN Return(<<apply_name_tmpl(r[1])>>)
  ELSE Raise(MaybeBadSqlModeError("mixed", e[1]))

PcAfterTry_Retry(out) == IF out.kind = "raise" THEN "dispatch" ELSE "done"
\* Lines 356-366: every branch of both try statements is a return or a raise,
\* which ends the call.
PcAfterTry(out) == "done"

\* Lines 664-673 of LogisticRegression.compute_on_sql_magic_mode: the checks on
\* the configuration, in order; <<>> when all pass.
L1RatioBad(l1_ratio) ==
  Falsy(l1_ratio) \/ ~(0 <= l1_ratio[1] /\ l1_ratio[1] <= L1Den)

LogisticConfigError(m) ==
  IF m.model.class_weight # "None"
  THEN <<Exception("ValueError", "class_weight", <<>>)>>
  ELSE IF m.model.multi_class = "multinomial"
  THEN <<Exception("ValueError", "multi_class", <<>>)>>
  ELSE IF m.penalty = "elasticnet" /\ L1RatioBad(m.l1_ratio)
  THEN <<Exception("ValueError", "l1_ratio", <<>>)>>
  ELSE IF m.intercept_scaling # Num(1)
  THEN <<Exception("ValueError", "intercept_scaling", <<>>)>>
  ELSE <<>>

\* A query handed to execute: what it computes and the columns it groups by.
Query(kind, by) == [kind |-> kind, by |-> by]

\* get_data (32-104): no query unless normalize (65-66); else the averages
\* (71) and the norms (95), both grouped by split_by.
GetDataQueries(normalize) ==
  IF normalize THEN <<Query("avgs", "split_by"), Query("norms", "split_by")>>
  ELSE <<>>

\* Lines 173-174 of get_sufficient_stats_elements: the normalize argument is
\* None (<<>>) or a Boolean (<<b>>).
StatsNormalize(m, normalize) ==
  IF normalize = None THEN m.normalize /\ m.fit_intercept ELSE normalize[1]

\* The queries get_sufficient_stats_elements issues: get_data's (175), then
\* the one statistics query (194).
SufficientStatsQueries(m, normalize) ==
  GetDataQueries(StatsNormalize(m, normalize)) \o <<Query("stats", "split_by")>>

RidgeMagicQueries_ModelNormalize(m) == SufficientStatsQueries(m, None)
\* Ridge.compute_on_sql_magic_mode (426-434) asks for the statistics with
\* normalize=False.
RidgeMagicQueries(m) == SufficientStatsQueries(m, <<FALSE>>)

AsRidge_DefaultAlpha(m) ==
  NewRidge(m.where, m.descendants_sql, 1, m.fit_intercept, m.normalize)
\* LinearRegression.compute_on_sql_magic_mode (389-392): the Ridge it builds
\* from its own fields, with alpha 0.
AsRidge(m) ==
  NewRidge(m.where, m.descendants_sql, 0, m.fit_intercept, m.normalize)

\* Line 678: the response is computed grouped by the model's own group_by.
ResponseQuery == Query("response", "group_by")

NotBinary_AtLeastTwo(n) == n < 2
\* Line 680: if n_y != 2.
NotBinary(n) == n # 2

\* The queries one pushdown logistic fit issues when nothing fails: the
\* response (678), get_data's (685, normalize left at False), the slices when
\* split_by is given (689-691), and one per Newton iteration (745).
LogisticQueries(split, iterations) ==
  <<ResponseQuery>> \o GetDataQueries(FALSE)
    \o (IF split THEN <<Query("slices", "none")>> ELSE <<>>)
    \o [i \in 1..iterations |-> Query("grads_hess", "none")]

InitSql ==
  /\ tril_elements = <<>>
  /\ symOut = NotCalled
  /\ pc = "call"
  /\ mode \in Modes
  /\ self \in Instances
  /\ table = "table"
  /\ events = <<>>
  /\ executeCalls = 0
  /\ queriesLeft = <<>>
  /\ queries = <<>>
  /\ n_y = <<>>
  /\ exc = <<>>
  /\ res = <<>>
  /\ execRaised = <<>>
  /\ outcome = Pending
  /\ IdleNewton
  /\ IdleStats
  /\ IdleCount
  /\ IdlePenalty

\* Lines 343-350.
Validate ==
  /\ pc = "call"
  /\ LET e == ModeError(mode, self.descendants_sql)
     IN IF e # <<>>
        THEN /\ outcome' = Raise(e[1])
             /\ pc' = "done"
        ELSE /\ pc' = "dispatch"
             /\ UNCHANGED outcome
  /\ UNCHANGED <<symVars, countVars, penaltyVars, newtonVars, statsVars,
                 mode, self, table, events, executeCalls, queriesLeft,
                 queries, n_y, exc, res, execRaised>>

\* Lines 352-354 and 361: the table is wrapped by the filter, then the strategy
\* for the mode is entered (its method is called inside a try block), or the
\* function ends without a return statement.
Dispatch ==
  /\ pc = "dispatch"
  /\ table' = IF self.where THEN "filtered" ELSE table
  /\ LET s == StrategyFor(mode, self.descendants_sql)
     IN IF s = "mixed"
        THEN /\ events' = Append(events, "start_mixed")
             /\ pc' = "mixed_children"
             /\ UNCHANGED outcome
        ELSE IF s = "magic"
        THEN /\ events' = Append(events, "start_magic")
             /\ pc' = "magic_fit"
             /\ UNCHANGED outcome
        ELSE /\ outcome' = Return(<<>>)
             /\ pc' = "done"
             /\ UNCHANGED events
  /\ UNCHANGED <<symVars, countVars, penaltyVars, newtonVars, statsVars,
                 mode, self, executeCalls, queriesLeft, queries, n_y,
                 exc, res, execRaised>>

\* The error the query engine raises: opaque to the program.
ExecuteError == Exception("ExecuteError", "engine", <<>>)

\* compute_on_sql_mixed_mode, first half: the children are evaluated through
\* SQL. The query succeeds, or execute raises, or a child that is itself
\* computed through a mode raises the mode signal.
MixedChildrenSql ==
  /\ pc = "mixed_children"
  /\ \/ /\ executeCalls' = executeCalls + 1
        /\ queries' = Append(queries, Query("children", "split_by+group_by"))
        /\ pc' = "mixed_fit"
        /\ UNCHANGED <<exc, execRaised, events>>
     \/ /\ executeCalls' = executeCalls + 1
        /\ queries' = Append(queries, Query("children", "split_by+group_by"))
        /\ exc' = <<ExecuteError>>
        /\ execRaised' = <<ExecuteError>>
        /\ events' = Append(events, "fail_mixed")
        /\ pc' = "mixed_end"
     \/ /\ \E hint \in {"mixed", "magic"} :
             exc' = <<Exception("MaybeBadSqlModeError", hint, <<>>)>>
        /\ events' = Append(events, "fail_mixed")
        /\ pc' = "mixed_end"
        /\ UNCHANGED <<executeCalls, queries, execRaised>>
  /\ UNCHANGED <<symVars, countVars, penaltyVars, newtonVars, statsVars,
                 mode, self, table, queriesLeft, n_y, res, outcome>>

\* compute_on_sql_mixed_mode, second half: Model.compute (lines 322-340) fits
\* the injected model on the children's result; model.fit may raise.
MixedLocalFit ==
  /\ pc = "mixed_fit"
  /\ \/ /\ res' = <<[by |-> "local", named |-> FALSE]>>
        /\ events' = Append(events, "ok_mixed")
        /\ UNCHANGED exc
     \/ /\ exc' = <<Exception("ValueError", "fit", <<>>)>>
        /\ events' = Append(events, "fail_mixed")
        /\ UNCHANGED res
  /\ pc' = "mixed_end"
  /\ UNCHANGED <<symVars, countVars, penaltyVars, newtonVars, statsVars,
                 mode, self, table, executeCalls, queriesLeft,
                 queries, n_y, execRaised, outcome>>

\* Lines 355-360.
MixedHandler ==
  /\ pc = "mixed_end"
  /\ outcome' = MixedHandlerOutcome(exc, res)
  /\ pc' = PcAfterTry(outcome')
  /\ UNCHANGED <<symVars, countVars, penaltyVars, newtonVars, statsVars,
                 mode, self, table, events, executeCalls, queriesLeft,
                 queries, n_y, exc, res, execRaised>>

\* The start of compute_on_sql_magic_mode of the instance's class: Model's
\* (368-369, inherited by Lasso and ElasticNet) raises NotImplementedError;
\* LogisticRegression's checks its configuration (664-673), then issues its
\* queries; LinearRegression's (389-392) is Ridge's, which issues the one
\* statistics query (426-434).
MagicBegin ==
  /\ pc = "magic_fit"
  /\ IF self.class \in {"Lasso", "ElasticNet"}
     THEN /\ exc' = <<Exception("NotImplementedError", "magic", <<>>)>>
          /\ events' = Append(events, "fail_magic")
          /\ pc' = "magic_end"
          /\ UNCHANGED queriesLeft
     ELSE IF self.class = "LogisticRegression"
     THEN IF LogisticConfigError(self) # <<>>
          THEN /\ exc' = LogisticConfigError(self)
               /\ events' = Append(events, "fail_magic")
               /\ pc' = "magic_end"
               /\ UNCHANGED queriesLeft
          ELSE /\ \E split \in BOOLEAN, iterations \in 0..MaxQueries :
                    /\ Len(LogisticQueries(split, iterations)) <= MaxQueries
                    /\ queriesLeft' = LogisticQueries(split, iterations)
               /\ pc' = "magic_query"
               /\ UNCHANGED <<exc, events>>
     ELSE /\ queriesLeft' = IF self.class = "LinearRegression"
                            THEN RidgeMagicQueries(AsRidge(self))
                            ELSE RidgeMagicQueries(self)
          /\ pc' = "magic_query"
          /\ UNCHANGED <<exc, events>>
  /\ UNCHANGED <<symVars, countVars, penaltyVars, newtonVars, statsVars,
                 mode, self, table, executeCalls, queries, n_y, res,
                 execRaised, outcome>>

\* One execute call of the pushdown fit (71, 95, 194; 678, 690-691, 745). The
\* query succeeds or execute raises; when the response query has answered, the
\* logistic fit counts its distinct values and raises unless there are two
\* (679-683).
MagicExecute ==
  /\ pc = "magic_query"
  /\ queriesLeft # <<>>
  /\ executeCalls' = executeCalls + 1
  /\ queries' = Append(queries, Head(queriesLeft))
  /\ \/ /\ Head(queriesLeft) # ResponseQuery
        /\ queriesLeft' = Tail(queriesLeft)
        /\ pc' = IF queriesLeft' = <<>> THEN "magic_solve" ELSE "magic_query"
        /\ UNCHANGED <<n_y, exc, execRaised, events>>
     \/ /\ Head(queriesLeft) = ResponseQuery
        /\ \E n \in 0..MaxClasses :
             /\ n_y' = Num(n)
             /\ IF NotBinary(n)
                THEN /\ exc' = <<Exception("ValueError", "n_y", <<>>)>>
                     /\ events' = Append(events, "fail_magic")
                     /\ pc' = "magic_end"
                     /\ UNCHANGED queriesLeft
                ELSE /\ queriesLeft' = Tail(queriesLeft)
                     /\ pc' = IF queriesLeft' = <<>> THEN "magic_solve"
                              ELSE "magic_query"
                     /\ UNCHANGED <<exc, events>>
        /\ UNCHANGED execRaised
     \/ /\ exc' = <<ExecuteError>>
        /\ execRaised' = <<ExecuteError>>
        /\ events' = Append(events, "fail_magic")
        /\ pc' = "magic_end"
        /\ UNCHANGED <<queriesLeft, n_y>>
  /\ UNCHANGED <<symVars, countVars, penaltyVars, newtonVars, statsVars,
                 mode, self, table, res, outcome>>

\* The solve on the query results (np.linalg.solve at 458, 487, 873) and the
\* coefficient table built from it; the solver may raise.
MagicSolve ==
  /\ pc = "magic_solve"
  /\ \/ /\ res' = <<[by |-> "pushdown", named |-> FALSE]>>
        /\ events' = Append(events, "ok_magic")
        /\ UNCHANGED exc
     \/ /\ exc' = <<Exception("LinAlgError", "solve", <<>>)>>
        /\ events' = Append(events, "fail_magic")
        /\ UNCHANGED res
  /\ pc' = "magic_end"
  /\ UNCHANGED <<symVars, countVars, penaltyVars, newtonVars, statsVars,
                 mode, self, table, executeCalls, queriesLeft,
                 queries, n_y, execRaised, outcome>>

\* Lines 362-366.
MagicHandler ==
  /\ pc = "magic_end"
  /\ outcome' = MagicHandlerOutcome(exc, res)
  /\ pc' = PcAfterTry(outcome')
  /\ UNCHANGED <<symVars, countVars, penaltyVars, newtonVars, statsVars,
                 mode, self, table, events, executeCalls, queriesLeft,
                 queries, n_y, exc, res, execRaised>>

Next ==
  \/ Validate
  \/ Dispatch
  \/ MixedChildrenSql
  \/ MixedLocalFit
  \/ MixedHandler
  \/ MagicBegin
  \/ MagicExecute
  \/ MagicSolve
  \/ MagicHandler

Spec == InitSql /\ [][Next]_vars

----------------------------------------------------------------------------
(* Claims about Model.compute_through_sql *)

HasEvent(e) == \E i \in 1..Len(events) : events[i] = e
CountEvent(e) == Cardinality({i \in 1..Len(events) : events[i] = e})
MixedOrUnset == mode \in {"mixed", "None"}
Starts == {"start_mixed", "start_magic"}
Fails == {"fail_mixed", "fail_magic"}

\* C3: when the mode is unknown, or 'sql', or 'magic' with a descendant that
\* is not computable in SQL, the call ends in the validation with a ValueError:
\* no fit strategy is started and execute is never called.
C3_ModeValidatedBeforeAnyQuery ==
  (\/ mode \notin {"None", "sql", "mixed", "magic"}
   \/ mode = "sql"
   \/ mode = "magic" /\ ~self.descendants_sql)
  => /\ events = <<>>
     /\ executeCalls = 0
     /\ pc \in {"call", "done"}
     /\ pc = "done" => /\ outcome.kind = "raise"
                       /\ outcome.exc[1].type = "ValueError"

\* Mode 'sql' on a Ridge whose descendants are all SQL-computable has ended
\* with the ValueError.
C3_Witness_SqlModeRefused ==
  /\ mode = "sql"
  /\ self.class = "Ridge"
  /\ self.descendants_sql
  /\ pc = "done"
  /\ outcome.kind = "raise"
  /\ outcome.exc[1].about = "not computable in pure SQL"

C5_MagicFailureBecomesSignal ==
  (mode = "magic" /\ self.descendants_sql /\ pc = "done") =>
    IF exc # <<>>
    THEN /\ outcome.kind = "raise"
         /\ outcome.exc[1].type = "MaybeBadSqlModeError"
         /\ outcome.exc[1].about = "mixed"
         /\ outcome.exc[1].cause = exc
    ELSE /\ outcome.kind = "return"
         /\ outcome.value = <<[by |-> "pushdown", named |-> TRUE]>>

\* A logistic fit whose third query failed in execute has ended with the
\* signal, the engine's error as its cause.
C5_Witness_ExecuteErrorWrapped ==
  /\ mode = "magic"
  /\ self.class = "LogisticRegression"
  /\ executeCalls = 3
  /\ pc = "done"
  /\ execRaised # <<>>
  /\ outcome.kind = "raise"
  /\ outcome.exc[1].cause = execRaised

\* C6: in mode 'mixed' or unset, a MaybeBadSqlModeError raised by
\* compute_on_sql_mixed_mode reaches the caller as that same exception object,
\* and when that computation succeeds the call returns (no signal is raised).
C6_FallbackSignalUnchanged ==
  (MixedOrUnset /\ pc = "done") =>
    /\ (exc # <<>> /\ exc[1].type = "MaybeBadSqlModeError") =>
          outcome.kind = "raise" /\ outcome.exc = exc
    /\ HasEvent("ok_mixed") =>
          outcome.kind = "return" /\ outcome.value = res /\ res # <<>>

\* A child's signal suggesting 'mixed' has reached the caller of a mixed-mode
\* call as it was raised.
C6_Witness_SignalPassedOn ==
  /\ mode = "mixed"
  /\ pc = "done"
  /\ exc # <<>>
  /\ exc[1].type = "MaybeBadSqlModeError"
  /\ exc[1].about = "mixed"
  /\ outcome.exc = exc

C8_EachStrategyStartedAtMostOnce ==
  /\ \A s \in Starts : CountEvent(s) <= 1
  /\ \A i, j \in 1..Len(events) :
       (i < j /\ events[i] \in Fails /\ events[j] \in Starts)
         => (events[i] = "fail_magic" /\ events[j] = "start_mixed")

\* A pushdown fit has failed in its solver after its queries and the call has
\* ended without another start.
C8_Witness_FailedOnceThenOver ==
  /\ pc = "done"
  /\ executeCalls > 0
  /\ events = <<"start_magic", "fail_magic">>
  /\ exc[1].type = "LinAlgError"

----------------------------------------------------------------------------
(* Claims about LogisticRegression.compute_on_sql_magic_mode's checks *)

ConfigErrors == {"class_weight", "multi_class", "l1_ratio", "intercept_scaling"}
\* The pushdown fit has been entered and its configuration checks have run.
MagicChecked == HasEvent("start_magic") /\ pc # "magic_fit"
ConfigErrorRaised ==
  exc # <<>> /\ exc[1].type = "ValueError" /\ exc[1].about \in ConfigErrors

\* C9: with penalty 'elasticnet', a numeric l1_ratio in [0, 1], 0 and 1
\* included, is not refused by the l1_ratio check, and one outside [0, 1] ends
\* the fit with a configuration error.
C9_L1RatioClosedInterval ==
  (/\ self.class = "LogisticRegression"
   /\ MagicChecked
   /\ self.penalty = "elasticnet"
   /\ self.l1_ratio # None)
  => IF 0 <= self.l1_ratio[1] /\ self.l1_ratio[1] <= L1Den
     THEN ~(exc # <<>> /\ exc[1].about = "l1_ratio")
     ELSE ConfigErrorRaised

\* C10: a numeric intercept_scaling other than 1 passed to the constructor,
\* 0 included, ends the pushdown logistic fit with a configuration error.
C10_InterceptScalingMustBeOne ==
  (/\ self.class = "LogisticRegression"
   /\ MagicChecked
   /\ self.model.intercept_scaling # None
   /\ self.model.intercept_scaling # Num(1))
  => ConfigErrorRaised

----------------------------------------------------------------------------
(* Claims about the queries of the pushdown fits *)

HasQuery(kind) == \E i \in 1..Len(queries) : queries[i].kind = kind

\* C11: the pushdown logistic fit fails fast. With class_weight set or
\* multi_class 'multinomial' it raises a ValueError before any query; once the
\* response query, grouped by the model's own group_by, has answered with a
\* number of distinct values other than two, it raises a ValueError. In both
\* cases no gradient/Hessian query has been executed and no coefficient exists.
C11_LogisticFailsFast ==
  (self.class = "LogisticRegression" /\ MagicChecked) =>
    /\ (self.model.class_weight # "None" \/ self.model.multi_class = "multinomial") =>
         /\ exc # <<>>
         /\ exc[1].type = "ValueError"
         /\ exc[1].about \in {"class_weight", "multi_class"}
         /\ queries = <<>>
         /\ res = <<>>
    /\ n_y # None =>
         /\ queries[1] = Query("response", "group_by")
         /\ ~HasQuery("grads_hess") \/ n_y = Num(2)
         /\ n_y # Num(2) =>
              /\ exc = <<Exception("ValueError", "n_y", <<>>)>>
              /\ pc \in {"magic_end", "done"}
              /\ Len(queries) = 1
              /\ res = <<>>

\* A response with three distinct values has ended the call.
C11_Witness_ThreeClassesRefused ==
  /\ self.class = "LogisticRegression"
  /\ n_y = Num(3)
  /\ pc = "done"
  /\ outcome.kind = "raise"
  /\ outcome.exc[1].cause[1].about = "n_y"

\* C19: a pushdown fit of LinearRegression or Ridge that has ended has called
\* execute exactly once, with the statistics query, whatever the model's
\* normalize and fit_intercept; while it runs it has called it at most once.
C19_RidgeOneExecute ==
  (self.class \in {"LinearRegression", "Ridge"} /\ HasEvent("start_magic")) =>
    /\ executeCalls <= 1
    /\ pc \in {"magic_solve", "magic_end", "done"} =>
         /\ executeCalls = 1
         /\ queries = <<Query("stats", "split_by")>>

\* A normalizing LinearRegression with an intercept has returned coefficients
\* after one execute call.
C19_Witness_NormalizedFitOneQuery ==
  /\ self.class = "LinearRegression"
  /\ self.normalize /\ self.fit_intercept
  /\ pc = "done"
  /\ outcome.kind = "return"
  /\ executeCalls = 1

\* C29: a call with an accepted mode (None, 'mixed', 'magic') ends by returning
\* a result table or by raising an error; it never ends by returning None.
C29_NeverFallsThrough ==
  (pc = "done" /\ mode \in {"None", "mixed", "magic"}) =>
    \/ outcome.kind = "raise" /\ outcome.exc # <<>>
    \/ outcome.kind = "return" /\ outcome.value # None

\* A call in mode 'magic' has returned the named result of the pushdown fit.
C29_Witness_MagicReturnsTable ==
  /\ pc = "done"
  /\ mode = "magic"
  /\ HasEvent("start_magic")
  /\ outcome.kind = "return"
  /\ outcome.value = <<[by |-> "pushdown", named |-> TRUE]>>

----------------------------------------------------------------------------
(* The Newton iteration of the pushdown logistic fit: newtons_method         *)
(* (models.py 864-884) with the callbacks of 693-760 and the call at 829-831 *)

\* The most groups (rows of coef).
MaxSlices == 2
\* The most coefficients per group, the intercept included.
MaxCoef == 2
\* tol is drawn from 1..MaxTol; the data set's optimum from -MaxTol..MaxTol.
MaxTol == 2
\* max_iter is drawn from 0..MaxIter.
MaxIter == 3

Take(s, n) == SubSeq(s, 1, IF n < Len(s) THEN n ELSE Len(s))
Drop(s, n) == SubSeq(s, n + 1, Len(s))

RECURSIVE SumSeq(_)
SumSeq(s) == IF s = <<>> THEN 0 ELSE Head(s) + SumSeq(Tail(s))

Abs(v) == IF v < 0 THEN 0 - v ELSE v

\* abs(delta).max()
MaxAbs(d) == CHOOSE v \in {Abs(d[c]) : c \in 1..Len(d)} : \A c \in 1..Len(d) : Abs(d[c]) <= v

\* The data behind the table, as the query engine sees it. Group g has a
\* Hessian of its own and an optimum of its own; its gradient at c is the
\* Hessian times the distance of c from the optimum, which saturates as the
\* logistic gradient does.
Hessian(g) ==
  [i \in 1..k |-> [j \in 1..k |-> (IF i = j THEN 10 * g ELSE 0) + i + j]]

Opt(g) == [i \in 1..k |-> target + (g - 1) - (i - 1)]

Saturate(v) == IF v > MaxTol THEN MaxTol ELSE IF v < 0 - MaxTol THEN 0 - MaxTol ELSE v

MatVec(m, d) == [i \in 1..Len(m) |-> SumSeq([j \in 1..Len(m) |-> m[i][j] * d[j]])]

Gradient(g, c) == MatVec(Hessian(g), [j \in 1..k |-> Saturate(c[j] - Opt(g)[j])])

\* A column of the gradient/Hessian query: which quantity, its position, the
\* coefficients written into its SQL text, and the filter (None: no filter,
\* <<v>>: the group with split_by value v).
Column(kind, idx, c, condition) ==
  [kind |-> kind, idx |-> idx, coef |-> c, cond |-> condition]

\* The group a column is computed on.
ColGroup(col) == IF col.cond = None THEN 1 ELSE col.cond[1]

\* What execute answers for one column.
Evaluate(col) ==
  IF col.kind = "grads"
  THEN Gradient(ColGroup(col), col.coef)[col.idx]
  ELSE LET rc == triu_indices(k)[col.idx]
       IN Hessian(ColGroup(col))[rc[1] + 1][rc[2] + 1]

\* execute(...).iloc[0] at 745.
Result(cols) == [p \in 1..Len(cols) |-> Evaluate(cols[p])]

\* Lines 688-692: the split_by values of the groups, or [] without split_by.
conds == IF split_by THEN [g \in 1..n_slice |-> g] ELSE <<>>

\* get_grads_and_hess_query (762-827): one gradient column per entry of xs
\* (787-791) and one Hessian column per pair x1, x2 in xs[i:], row by row
\* (797-800); the penalty changes the columns' text, not their number.
get_grads_and_hess_query(c, condition) ==
  [grads |-> [i \in 1..k |-> Column("grads", i, c, condition)],
   hess |-> [p \in 1..((k * (k + 1)) \div 2) |-> Column("hess", p, c, condition)]]

SliceCondition_First(g) == <<conds[1]>>
\* Lines 731-735: the filter of group g, from its split_by values.
SliceCondition(g) == <<conds[g]>>

NeedsColumns_All(done) == TRUE
\* Line 730: if not done.
NeedsColumns(done) == ~done

\* Lines 726-738: the columns of the groups from g on.
RECURSIVE SliceColumns(_, _, _)
SliceColumns(g, c, cv) ==
  IF g > Len(c) THEN [grads |-> <<>>, hess |-> <<>>]
  ELSE LET rest == SliceColumns(g + 1, c, cv)
           own == IF NeedsColumns(cv[g])
                  THEN get_grads_and_hess_query(c[g], SliceCondition(g))
                  ELSE [grads |-> <<>>, hess |-> <<>>]
       IN [grads |-> own.grads \o rest.grads, hess |-> own.hess \o rest.hess]

\* Lines 723-743: the column list of one query, all gradients first.
QueryColumns(c, cv) ==
  LET q == IF ~split_by THEN get_grads_and_hess_query(c[1], None)
           ELSE SliceColumns(1, c, cv)
  IN q.grads \o q.hess

\* Lines 746-752: self._gradients, and what is left of the result row.
RECURSIVE SliceGradients(_, _)
SliceGradients(values, cv) ==
  IF cv = <<>> THEN [grads |-> <<>>, rest |-> values]
  ELSE IF Head(cv)
  THEN LET r == SliceGradients(values, Tail(cv))
       IN [grads |-> <<None>> \o r.grads, rest |-> r.rest]
  ELSE LET r == SliceGradients(Drop(values, k), Tail(cv))
       IN [grads |-> <<Take(values, k)>> \o r.grads, rest |-> r.rest]

\* values.reshape(-1, width) at 753: numpy raises unless the length divides.
Reshape(values, width) ==
  [ok |-> Len(values) % width = 0,
   rows |-> [r \in 1..(Len(values) \div width) |->
               SubSeq(values, (r - 1) * width + 1, r * width)]]

\* Lines 754-759: the Hessian of every group still iterated, from the rows.
RECURSIVE PopHessians(_, _)
PopHessians(rows, cv) ==
  IF cv = <<>> THEN <<>>
  ELSE IF Head(cv) THEN <<None>> \o PopHessians(rows, Tail(cv))
  ELSE <<symmetrize_triangular(Head(rows)).matrix>> \o PopHessians(Tail(rows), Tail(cv))

NotDone(cv) == Cardinality({g \in 1..Len(cv) : ~cv[g]})

\* The determinant, by expansion along the first row.
RECURSIVE Det(_)
Det(m) ==
  IF Len(m) = 1 THEN m[1][1]
  ELSE SumSeq([c \in 1..Len(m) |->
         (IF c % 2 = 1 THEN 1 ELSE 0 - 1) * m[1][c] *
         Det([i \in 1..(Len(m) - 1) |-> [j \in 1..(Len(m) - 1) |->
                m[i + 1][IF j < c THEN j ELSE j + 1]]])])

\* np.linalg.solve(a, b) for a system with an integer solution.
Solve(a, b) ==
  [c \in 1..Len(a) |->
     Det([i \in 1..Len(a) |-> [j \in 1..Len(a) |-> IF j = c THEN b[i] ELSE a[i][j]]])
       \div Det(a)]

Converges_NonStrict(delta, t) == MaxAbs(delta) <= t
\* Line 874: abs(delta).max() < tol.
Converges(delta, t) == MaxAbs(delta) < t

LoopContinues_OneMore(i, m) == i <= m
\* Line 868: for _ in range(int(max_iter)).
LoopContinues(i, m) == i < m

AllConverged == \A g \in 1..n_slice : converged[g]

GradsAfterHess_Before(stored, computed) == stored
\* Lines 869-870 with 695-696: hess has run compute_grads_and_hess, which
\* replaced self._gradients (746), when grads returns self._gradients.
GradsAfterHess(stored, computed) == computed

Marked_ThisStepOnly(done, delta, t) == ~done /\ Converges(delta, t)
\* Lines 872-875: the flag of a group is only ever set, and only in a step the
\* group takes.
Marked(done, delta, t) == done \/ Converges(delta, t)

\* np.zeros((n, width))
Zeros(n, width) == [g \in 1..n |-> [c \in 1..width |-> 0]]

InitialCoef_WarmStart(last, n, width) == last
\* Line 830: np.zeros((len(conds) or 1, len(xs))), whatever an earlier fit
\* returned.
InitialCoef(last, n, width) == Zeros(n, width)

\* The call at 829-831: coef = np.zeros((len(conds) or 1, len(xs))); the flags
\* of 867.
InitNewton ==
  /\ tril_elements = <<>>
  /\ symOut = NotCalled
  /\ IdleSql
  /\ IdleStats
  /\ IdleCount
  /\ IdlePenalty
  /\ npc = "loop"
  /\ split_by \in BOOLEAN
  /\ n_slice \in 1..MaxSlices
  /\ ~split_by => n_slice = 1
  /\ k \in 1..MaxCoef
  /\ tol \in 1..MaxTol
  /\ max_iter \in 0..MaxIter
  /\ target \in (0 - MaxTol)..MaxTol
  /\ coef = Zeros(n_slice, k)
  /\ converged = [g \in 1..n_slice |-> FALSE]
  /\ iter = 0
  /\ newtonExecutes = 0
  /\ columns = <<>>
  /\ gradients = <<>>
  /\ h = <<>>
  /\ warned = <<>>
  /\ newtonOut = "pending"
  /\ call = 1
  /\ jGrads = <<>>
  /\ at = [gradients |-> <<1, 0>>, h |-> <<1, 0>>, j |-> <<1, 0>>]
  /\ firstFit = <<>>

\* Lines 868-870: one more iteration starts; hess runs compute_grads_and_hess
\* (699), which builds the column list, calls execute once (745), and cuts
\* the result row into self._gradients and the Hessians; grads only reads
\* self._gradients (696).
NewtonQuery ==
  /\ npc = "loop"
  /\ LoopContinues(iter, max_iter)
  /\ iter' = iter + 1
  /\ \E cols \in {QueryColumns(coef, converged)} :
       \E sl \in {SliceGradients(Result(cols), converged)} :
         \E rs \in {Reshape(sl.rest, (k * (k + 1)) \div 2)} :
           /\ columns' = cols
           /\ newtonExecutes' = newtonExecutes + 1
           /\ IF ~rs.ok \/ Len(rs.rows) < NotDone(converged)
              THEN /\ npc' = "done"
                   /\ newtonOut' = "raise"
                   /\ UNCHANGED <<gradients, h, jGrads, at>>
              ELSE /\ gradients' = sl.grads
                   /\ h' = PopHessians(rs.rows, converged)
                   /\ jGrads' = GradsAfterHess(gradients, gradients')
                   /\ at' = [gradients |-> <<call, iter'>>,
                             h |-> <<call, iter'>>,
                             j |-> GradsAfterHess(at.gradients, <<call, iter'>>)]
                   /\ npc' = "update"
                   /\ UNCHANGED newtonOut
  /\ UNCHANGED <<symVars, countVars, penaltyVars, sqlVars, statsVars, split_by,
                 n_slice, k, tol, max_iter, target,
                 coef, converged, warned, call, firstFit>>

\* Lines 871-878: every group still iterated takes its step; the call returns
\* when all have converged.
NewtonUpdate ==
  /\ npc = "update"
  /\ LET delta == [i \in 1..n_slice |->
                     IF converged[i] THEN <<>> ELSE Solve(h[i], jGrads[i])]
     IN /\ converged' = [i \in 1..n_slice |-> Marked(converged[i], delta[i], tol)]
        /\ coef' = [i \in 1..n_slice |->
                      IF converged[i] THEN coef[i]
                      ELSE [c \in 1..k |-> coef[i][c] - delta[i][c]]]
  /\ IF \A g \in 1..n_slice : converged'[g]
     THEN npc' = "done" /\ newtonOut' = "return"
     ELSE npc' = "loop" /\ UNCHANGED newtonOut
  /\ UNCHANGED <<symVars, countVars, penaltyVars, sqlVars, statsVars, split_by,
                 n_slice, k, tol, max_iter, target,
                 iter, newtonExecutes, columns, gradients, h, warned,
                 call, jGrads, at, firstFit>>

\* Lines 879-884: the loop is over; a warning is printed (naming the groups not
\* converged when there are several) and coef is returned.
NewtonExhausted ==
  /\ npc = "loop"
  /\ ~LoopContinues(iter, max_iter)
  /\ warned' = <<IF n_slice = 1 THEN {}
                 ELSE {conds[g] : g \in {i \in 1..n_slice : ~converged[i]}}>>
  /\ newtonOut' = "return"
  /\ npc' = "done"
  /\ UNCHANGED <<symVars, countVars, penaltyVars, sqlVars, statsVars, split_by,
                 n_slice, k, tol, max_iter, target,
                 coef, converged, iter, newtonExecutes, columns, gradients, h,
                 call, jGrads, at, firstFit>>

\* The fit is run once more on the same instance, with the same table,
\* split_by and execute: self._gradients is set to None (693), and
\* newtons_method starts on a new array of zeros (829-831) with locals of its
\* own (866-867).
NewtonSecondCall ==
  /\ npc = "done"
  /\ call = 1
  /\ call' = 2
  /\ firstFit' = <<[out |-> newtonOut, coef |-> coef, warned |-> warned]>>
  /\ gradients' = None
  /\ coef' = InitialCoef(coef, n_slice, k)
  /\ converged' = [g \in 1..n_slice |-> FALSE]
  /\ iter' = 0
  /\ newtonExecutes' = 0
  /\ columns' = <<>>
  /\ h' = <<>>
  /\ jGrads' = <<>>
  /\ at' = [gradients |-> <<2, 0>>, h |-> <<2, 0>>, j |-> <<2, 0>>]
  /\ warned' = <<>>
  /\ newtonOut' = "pending"
  /\ npc' = "loop"
  /\ UNCHANGED <<symVars, countVars, penaltyVars, sqlVars, statsVars, split_by,
                 n_slice, k, tol, max_iter, target>>

NextNewton ==
  \/ NewtonQuery
  \/ NewtonUpdate
  \/ NewtonExhausted
  \/ NewtonSecondCall

SpecNewton == InitNewton /\ [][NextNewton]_vars

\* newtons_method runs to its end once called: nothing else competes for the
\* thread.
FairSpecNewton == SpecNewton /\ WF_vars(NextNewton)

----------------------------------------------------------------------------
(* Claims about the Newton iteration *)

ColumnsOf(g, kind) ==
  {p \in 1..Len(columns) : columns[p].kind = kind /\ ColGroup(columns[p]) = g}

\* C12: every iteration started has made exactly one execute call, whatever the
\* number of groups; the query of an iteration holds, for every group not
\* marked converged, k gradient and k(k+1)/2 Hessian columns, and no column
\* for a converged group.
C12_OneQueryPerIteration ==
  /\ newtonExecutes = iter
  /\ npc = "update" =>
       /\ \A g \in 1..n_slice :
            /\ Cardinality(ColumnsOf(g, "grads")) = IF converged[g] THEN 0 ELSE k
            /\ Cardinality(ColumnsOf(g, "hess")) =
                 IF converged[g] THEN 0 ELSE (k * (k + 1)) \div 2
       /\ Len(columns) = NotDone(converged) * (k + (k * (k + 1)) \div 2)

\* The query of one iteration leaves out the first of two groups, which has
\* converged, and still asks for the second.
C12_Witness_ConvergedGroupSkipped ==
  /\ npc = "update"
  /\ n_slice = 2
  /\ k = 2
  /\ converged = <<TRUE, FALSE>>
  /\ Len(columns) = 5

C13_Bounded ==
  /\ iter <= max_iter
  /\ newtonExecutes <= max_iter
  /\ (npc = "loop" /\ iter > 0) => ~AllConverged
  /\ npc # "done" => warned = <<>> /\ newtonOut = "pending"
  /\ npc = "done" =>
       /\ newtonOut = "return"
       /\ \/ AllConverged /\ warned = <<>> /\ iter >= 1
          \/ ~AllConverged /\ warned # <<>> /\ iter = max_iter

\* C13: newtons_method ends, after at most max_iter iterations and queries; it
\* returns at the end of the first iteration that leaves every group
\* converged, and when max_iter iterations (0 included) leave a group not
\* converged it prints a warning and returns without raising.
C13_TerminatesWithinMaxIter == []C13_Bounded /\ <>(npc = "done")

\* Several iterations were allowed, all were used, and a group is still not
\* converged.
C13_Witness_ExhaustedWithWarning ==
  /\ npc = "done"
  /\ max_iter > 1
  /\ iter = max_iter
  /\ ~AllConverged
  /\ warned # <<>>
  /\ newtonOut = "return"

\* C14: in an update step every group not yet converged moves by the delta
\* that solves its own Hessian and gradient at its coefficients (coef -=
\* delta), and becomes converged exactly when max|delta| < tol; a converged
\* group is left alone.
C14_NewtonStep ==
  [][npc = "update" =>
       \A i \in 1..n_slice :
         IF converged[i]
         THEN coef'[i] = coef[i] /\ converged'[i]
         ELSE LET d == [c \in 1..k |-> coef[i][c] - coef'[i][c]]
              IN /\ MatVec(Hessian(i), d) = Gradient(i, coef[i])
                 /\ converged'[i] <=> MaxAbs(d) < tol]_vars

\* A group converged in the first iteration and its coefficients have moved
\* off zero: the converging delta was applied.
C14_Witness_ConvergingDeltaApplied ==
  /\ iter = 1
  /\ npc \in {"loop", "done"}
  /\ converged[1]
  /\ coef[1][1] # 0

\* How the fit in progress has ended.
FitResult == [out |-> newtonOut, coef |-> coef, warned |-> warned]

\* C24: a second pushdown fit on the same instance, with the same table,
\* split_by and execute answers, ends as the first did, with the same
\* coefficients; every gradient it reads was produced by an execute call of
\* its own, and it starts with no stored gradients.
C24_SecondFitSameAsFirst ==
  call = 2 =>
    /\ npc = "done" => firstFit = <<FitResult>>
    /\ npc = "update" => at.j[1] = 2 /\ at.gradients[1] = 2
    /\ iter = 0 => gradients = None /\ coef = Zeros(n_slice, k)

\* The second fit has ended after several iterations, off the zero it
\* started from.
C24_Witness_SecondFitDone ==
  /\ call = 2
  /\ npc = "done"
  /\ newtonOut = "return"
  /\ iter >= 2
  /\ coef # Zeros(n_slice, k)
  /\ firstFit # <<>>

\* C25: after the query of an iteration, every group not converged holds the
\* k gradient values and the symmetrized k(k+1)/2 Hessian values of its own
\* columns, which carry its own filter and its current coefficients;
\* converged groups hold None; the cut never fails, whatever the flags.
C25_GroupsGetOwnValues ==
  /\ newtonOut # "raise"
  /\ npc = "update" =>
       \A g \in 1..n_slice :
         IF converged[g]
         THEN gradients[g] = None /\ h[g] = None
         ELSE /\ gradients[g] = Gradient(g, coef[g])
              /\ Len(gradients[g]) = k
              /\ h[g] = Hessian(g)
              /\ \A p \in ColumnsOf(g, "grads") \cup ColumnsOf(g, "hess") :
                   columns[p].coef = coef[g]
              /\ gradients[g] = [i \in 1..k |->
                   Evaluate(columns[CHOOSE p \in ColumnsOf(g, "grads") :
                                      columns[p].idx = i])]

\* The second of two groups has converged and the first has not: the values
\* of the query all belong to the first.
C25_Witness_SecondGroupConverged ==
  /\ npc = "update"
  /\ n_slice = 2
  /\ converged = <<FALSE, TRUE>>
  /\ gradients[2] = None
  /\ gradients[1] # None

\* C26: within one fit, a group marked converged stays marked and keeps its
\* coefficients in every later step.
C26_ConvergedStays ==
  [][call' = call =>
       \A i \in 1..n_slice :
         converged[i] => converged'[i] /\ coef'[i] = coef[i]]_vars

\* A later iteration works on the second group while the first, converged
\* off zero, is left alone.
C26_Witness_LaterIterationSkipsConverged ==
  /\ n_slice = 2
  /\ iter >= 2
  /\ npc = "loop"
  /\ converged[1] /\ ~converged[2]
  /\ coef[1] # [c \in 1..k |-> 0]
  /\ coef[2] # [c \in 1..k |-> 0]

\* C27: in the update of an iteration the gradients used are those of the
\* execute call that produced the Hessians used, the call of this iteration;
\* they are the gradients at the coefficients as the previous iteration left
\* them, which are the coefficients written into the query.
C27_GradientOfSameExecution ==
  npc = "update" =>
    /\ at.j = <<call, iter>>
    /\ at.h = <<call, iter>>
    /\ newtonExecutes = iter
    /\ jGrads = gradients
    /\ \A g \in 1..n_slice : ~converged[g] => jGrads[g] = Gradient(g, coef[g])
    /\ \A p \in 1..Len(columns) : columns[p].coef = coef[ColGroup(columns[p])]

\* The second iteration of a fit has its gradients, at coefficients the first
\* iteration moved.
C27_Witness_SecondIteration ==
  /\ npc = "update"
  /\ call = 1
  /\ iter = 2
  /\ ~converged[1]
  /\ coef[1] # [c \in 1..k |-> 0]
  /\ jGrads[1] # Gradient(1, [c \in 1..k |-> 0])

----------------------------------------------------------------------------
(* The sufficient statistics, models.py 133-240 *)

\* len(xs) is drawn from 1..MaxFeatures.
MaxFeatures == 3
\* A statistics table handed in has 0..MaxRows rows.
MaxRows == 2
\* n_obs is drawn from 1..MaxObs.
MaxObs == 2

\* Column names: x{i}, x{i}x{j}, x{i}y, y and n_obs.
MeanName(i) == <<"x", i>>
PairName(i, j) == <<"x", i, "x", j>>
CrossName(i) == <<"x", i, "y">>
YName == <<"y">>
NObsName == <<"n_obs">>

IsPair(name) == Len(name) = 4

\* Line 172: the fit_intercept argument, or the model's when it is None.
EffectiveFitIntercept(m, fit_intercept) ==
  IF fit_intercept = None THEN m.fit_intercept ELSE fit_intercept[1]

\* Line 179 tests m.fit_intercept: the value computed at 172 is not read.
StatsUsesIntercept(m, fit_intercept) == m.fit_intercept

PairAlias_Restart(i, j) == PairName(i, j)
\* Line 185: alias=f'x{i}x{i + j}', j counting from 0 within xs[i:].
PairAlias(i, j) == PairName(i, i + j)

\* Lines 183-185: for i, x1 in enumerate(xs): for j, x2 in enumerate(xs[i:]).
RECURSIVE PairColumns(_, _)
PairColumns(i, n) ==
  IF i >= n THEN <<>>
  ELSE [c \in 1..(n - i) |-> PairAlias(i, c - 1)] \o PairColumns(i + 1, n)

\* Lines 177-191: the columns of the statistics query.
StatsQueryColumns(m, n, fit_intercept, normalize, include_n_obs) ==
  LET x_t_x == (IF StatsUsesIntercept(m, fit_intercept) /\ ~normalize
                THEN [i \in 1..n |-> MeanName(i - 1)] ELSE <<>>)
               \o PairColumns(0, n)
      x_t_y == (IF StatsUsesIntercept(m, fit_intercept) THEN <<YName>> ELSE <<>>)
               \o [i \in 1..n |-> CrossName(i - 1)]
  IN x_t_x \o x_t_y \o (IF include_n_obs THEN <<NObsName>> ELSE <<>>)

\* get_sufficient_stats_elements: the queries it issues, the columns of the
\* statistics query, the columns of the table it returns (195-200: with
\* normalize the x{i} columns are put in front) and those it has set to 0.
get_sufficient_stats_elements(m, n, fit_intercept, normalize, include_n_obs) ==
  LET nz == StatsNormalize(m, normalize)
      cols == StatsQueryColumns(m, n, fit_intercept, nz, include_n_obs)
      avg_x_names == [i \in 1..n |-> MeanName(i - 1)]
  IN [kind |-> "return",
      queries |-> SufficientStatsQueries(m, normalize),
      query |-> cols,
      returned |-> IF nz THEN avg_x_names \o cols ELSE cols,
      zeroed |-> IF nz THEN avg_x_names ELSE <<>>]

\* The value the engine computes for a column in the row of group r.
DataValue(name, r) ==
  IF name = NObsName THEN data.n_obs
  ELSE IF name = YName THEN r + 1
  ELSE IF Len(name) = 2 THEN r + name[2] + 2
  ELSE IF Len(name) = 3 THEN r + 2 * name[2] + 3
  ELSE r + (name[2] + 1) * (name[4] + 1) + (IF name[2] = name[4] THEN 9 ELSE 4)

\* Row r of a statistics table with these columns.
Row(names, r) == [names |-> names, values |-> [p \in 1..Len(names) |-> DataValue(names[p], r)]]

Has(row, name) == \E p \in 1..Len(row.names) : row.names[p] = name

\* row[name]
Lookup(row, name) == row.values[CHOOSE p \in 1..Len(row.names) : row.names[p] = name]

\* The columns of the table the closed-form fit receives (430).
RidgeStatsNames(m, n) ==
  get_sufficient_stats_elements(m, n, None, <<FALSE>>, TRUE).returned

RowsError_MoreThanTwo(len) == len > 2
\* Line 220: len(sufficient_stats_elements) > 1.
RowsError(len) == len > 1

ErrorOut(type, about) == [kind |-> "raise", error |-> [type |-> type, about |-> about]]

\* Lines 219-224: the one row the matrices are built from, or the error.
OneRow(stats) ==
  IF stats.type = "DataFrame"
  THEN IF RowsError(stats.len) THEN ErrorOut("ValueError", "Only support 1D input!")
       ELSE IF stats.len = 0 THEN ErrorOut("IndexError", "iloc[0]")
       ELSE [kind |-> "row", row |-> Row(stats.names, 1), index |-> 1]
  ELSE IF stats.type # "Series"
  THEN ErrorOut("ValueError", "The input must be a panda Series!")
  ELSE [kind |-> "row", row |-> Row(stats.names, 1), index |-> 1]

\* Lines 231-233: for i in range(n): for j in range(i, n): f'x{i}x{j}'.
RECURSIVE ReadPairColumns(_, _)
ReadPairColumns(i, n) ==
  IF i >= n THEN <<>>
  ELSE [c \in 1..(n - i) |-> PairName(i, i + c - 1)] \o ReadPairColumns(i + 1, n)

\* Lines 225-234: the names construct_matrix_from_elements reads.
ReadColumns(n, fit_intercept) ==
  [x_t_x |-> (IF fit_intercept THEN [i \in 1..n |-> MeanName(i - 1)] ELSE <<>>)
             \o ReadPairColumns(0, n),
   x_t_y |-> (IF fit_intercept THEN <<YName>> ELSE <<>>)
             \o [i \in 1..n |-> CrossName(i - 1)]]

\* Lines 225-240, on one row.
MatricesFromRow(row, index, n, fit_intercept) ==
  LET cols == ReadColumns(n, fit_intercept)
  IN IF \E p \in 1..Len(cols.x_t_x) : ~Has(row, cols.x_t_x[p])
     THEN ErrorOut("KeyError", "x_t_x")
     ELSE IF \E p \in 1..Len(cols.x_t_y) : ~Has(row, cols.x_t_y[p])
     THEN ErrorOut("KeyError", "x_t_y")
     ELSE LET elements == (IF fit_intercept THEN <<1>> ELSE <<>>)
                          \o [p \in 1..Len(cols.x_t_x) |-> Lookup(row, cols.x_t_x[p])]
              sym == symmetrize_triangular(elements)
          IN IF sym.kind = "raise" THEN ErrorOut("ValueError", "shape")
             ELSE [kind |-> "return", index |-> index, x_t_x |-> sym.matrix,
                   x_t_y |-> [p \in 1..Len(cols.x_t_y) |-> Lookup(row, cols.x_t_y[p])]]

construct_matrix_from_elements(stats, n, fit_intercept) ==
  LET one == OneRow(stats)
  IN IF one.kind = "raise" THEN one
     ELSE MatricesFromRow(one.row, one.index, n, fit_intercept)

----------------------------------------------------------------------------
(* The closed-form fit, models.py 389-392 and 426-493 *)

\* The name of a feature column of the data (an entry of xs).
FeatureName(i) == <<"f", i>>

ScaleMatrix(a, mat) ==
  [i \in 1..Len(mat) |-> [j \in 1..Len(mat) |-> a * mat[i][j]]]

PenaltyIdentity_Full(size, fit_intercept) ==
  [i \in 1..size |-> [j \in 1..size |-> IF i = j THEN 1 ELSE 0]]
\* Lines 448-450: np.identity(len(x_t_y)), with [0, 0] zeroed for an intercept.
PenaltyIdentity(size, fit_intercept) ==
  [i \in 1..size |-> [j \in 1..size |->
     IF i = j /\ ~(fit_intercept /\ i = 1) THEN 1 ELSE 0]]

\* A matrix of fractions with one denominator.
Fraction(num, den) == [num |-> num, den |-> den]

\* x_t_x += penalty (452, 481): the matrix np.linalg.solve is given.
AddPenalty(x_t_x, penalty) ==
  Fraction([i \in 1..Len(x_t_x) |-> [j \in 1..Len(x_t_x) |->
              penalty.den * x_t_x[i][j] + penalty.num[i][j]]],
           penalty.den)

\* Line 452: m.alpha / n_obs * penalty, for a Ridge (446); nothing is added
\* for another model.
PlainPenalty(m, n_obs, size) ==
  IF m.class = "Ridge"
  THEN Fraction(ScaleMatrix(m.alpha, PenaltyIdentity(size, m.fit_intercept)), n_obs)
  ELSE Fraction(ScaleMatrix(0, PenaltyIdentity(size, FALSE)), 1)

\* Line 481: m.alpha * np.diag(x_t_x.diagonal()), for a Ridge (480).
NormalizedPenalty(m, x_t_x) ==
  IF m.class = "Ridge" THEN Fraction(ScaleMatrix(m.alpha, DiagOf(x_t_x)), 1)
  ELSE Fraction(ScaleMatrix(0, x_t_x), 1)

\* Lines 472-478: the centred elements, row by row.
RECURSIVE CentredPairs(_, _, _)
CentredPairs(row, i, n) ==
  IF i >= n THEN <<>>
  ELSE [c \in 1..(n - i) |->
          Lookup(row, PairName(i, i + c - 1))
            - Lookup(row, MeanName(i)) * Lookup(row, MeanName(i + c - 1))]
       \o CentredPairs(row, i + 1, n)

\* compute_coef_for_normalize_ridge (465-493), on a row: the system
\* (x_t_x + penalty) coef = x_t_y it solves, and what the intercept is
\* computed from.
compute_coef_for_normalize_ridge(stats, features, m) ==
  LET n == Len(features)
      row == Row(stats.names, 1)
      needed == ReadColumns(n, TRUE)
  IN IF stats.type # "Series" THEN ErrorOut("TypeError", "not a row")
     ELSE IF \E p \in 1..Len(needed.x_t_x) : ~Has(row, needed.x_t_x[p])
     THEN ErrorOut("KeyError", "x_t_x")
     ELSE IF \E p \in 1..Len(needed.x_t_y) : ~Has(row, needed.x_t_y[p])
     THEN ErrorOut("KeyError", "x_t_y")
     ELSE LET sym == symmetrize_triangular(CentredPairs(row, 0, n))
          IN [kind |-> "return", branch |-> "normalized", index |-> 1,
              names |-> <<"intercept">> \o features,
              x_t_x |-> sym.matrix,
              penalty |-> NormalizedPenalty(m, sym.matrix),
              solved |-> AddPenalty(sym.matrix, NormalizedPenalty(m, sym.matrix)),
              x_t_y |-> [i \in 1..n |->
                           Lookup(row, CrossName(i - 1))
                             - Lookup(row, MeanName(i - 1)) * Lookup(row, YName)],
              y |-> Lookup(row, YName),
              means |-> [i \in 1..n |-> Lookup(row, MeanName(i - 1))]]

\* Lines 459-462 (and 336-340 of Model.compute): the columns of the
\* coefficient table.
CoefNames(features, fit_intercept) ==
  (IF fit_intercept THEN <<"intercept">> ELSE <<>>) \o features

Normalizes_FlagOnly(m) == m.normalize
\* Lines 324 and 329: self.normalize and self.fit_intercept.
Normalizes(m) == m.normalize /\ m.fit_intercept

\* Model.compute (322-340), the local fit on the table of y and x: what
\* self.model (built with fit_intercept only, 383 and 414-421) is fitted on,
\* what the coefficients it reports are divided by, where the intercept is
\* taken from, and the columns of the table returned.
compute(m, features) ==
  [kind |-> "return", branch |-> "local",
   fitted_on |-> IF Normalizes(m) THEN "x_scaled / norms" ELSE "x",
   coef |-> IF Normalizes(m) THEN "coef_ / norms" ELSE "coef_",
   intercept |-> IF m.fit_intercept
                 THEN IF m.normalize THEN "y.mean() - x.mean().dot(coef)"
                      ELSE "intercept_"
                 ELSE "none",
   names |-> CoefNames(features, m.fit_intercept)]

\* compute_ridge_coefs (437-462): a table is replaced by its first row
\* (439-440); then the normalized branch (442-443), or the matrices of
\* construct_matrix_from_elements with the penalty added (444-452). The
\* result is the system that np.linalg.solve is given, with the names.
compute_ridge_coefs(stats, features, m) ==
  IF stats.type = "DataFrame" /\ stats.len = 0 THEN ErrorOut("IndexError", "iloc[0]")
  ELSE LET series == IF stats.type = "DataFrame"
                     THEN [stats EXCEPT !.type = "Series", !.len = 1]
                     ELSE stats
       IN IF m.fit_intercept /\ m.normalize
          THEN compute_coef_for_normalize_ridge(series, features, m)
          ELSE LET cm == construct_matrix_from_elements(series, Len(features), m.fit_intercept)
               IN IF cm.kind = "raise" THEN cm
                  ELSE [kind |-> "return", branch |-> "plain", index |-> cm.index,
                        names |-> CoefNames(features, m.fit_intercept),
                        x_t_x |-> cm.x_t_x,
                        penalty |-> PlainPenalty(m, data.n_obs, Len(cm.x_t_y)),
                        solved |-> AddPenalty(cm.x_t_x,
                                     PlainPenalty(m, data.n_obs, Len(cm.x_t_y))),
                        x_t_y |-> cm.x_t_y]

\* Ridge.compute_on_sql_magic_mode (426-434): the statistics are queried, and
\* compute_ridge_coefs is applied to the table of each group, which has one
\* row (107-130).
RidgeMagicFit(m, features) ==
  LET st == get_sufficient_stats_elements(m, Len(features), None, <<FALSE>>, TRUE)
  IN [kind |-> "return",
      queries |-> RidgeMagicQueries(m),
      query |-> st.query,
      coefs |-> compute_ridge_coefs(
                  [type |-> "DataFrame", len |-> 1, names |-> st.returned],
                  features, m)]

\* LinearRegression.compute_on_sql_magic_mode (389-392).
LinearMagicFit(m, features) == RidgeMagicFit(AsRidge(m), features)

\* The models the closed-form fit is written for.
StatsModels ==
  {NewModel("LinearRegression", FALSE, TRUE, fi, nz) : fi \in BOOLEAN, nz \in BOOLEAN}
  \cup
  {NewRidge(FALSE, TRUE, a, fi, nz) : a \in 0..MaxAlpha, fi \in BOOLEAN, nz \in BOOLEAN}

\* What a caller can hand in as statistics: a table of some rows, one row, or
\* something that is neither. Its columns are those of the model's own
\* statistics query.
StatsInputs(m, n) ==
  {[type |-> "DataFrame", len |-> r, names |-> RidgeStatsNames(m, n)] : r \in 0..MaxRows}
  \cup {[type |-> "Series", len |-> 1, names |-> RidgeStatsNames(m, n)],
        [type |-> "other", len |-> 0, names |-> RidgeStatsNames(m, n)]}

OptionalBools == {None, <<TRUE>>, <<FALSE>>}

InitStats ==
  /\ tril_elements = <<>>
  /\ symOut = NotCalled
  /\ IdleSql
  /\ IdleNewton
  /\ IdleCount
  /\ IdlePenalty
  /\ called = "none"
  /\ sm \in StatsModels
  /\ xs \in {[i \in 1..n |-> FeatureName(i - 1)] : n \in 1..MaxFeatures}
  /\ argFitIntercept \in OptionalBools
  /\ argNormalize \in OptionalBools
  /\ data \in [n_obs : 1..MaxObs]
  /\ sufficient_stats \in StatsInputs(sm, Len(xs))
  /\ statsOut = [kind |-> "none"]

CallGetSufficientStats ==
  /\ called = "none"
  /\ called' = "get_sufficient_stats_elements"
  /\ \E include_n_obs \in BOOLEAN :
       statsOut' = get_sufficient_stats_elements(sm, Len(xs), argFitIntercept,
                                                 argNormalize, include_n_obs)
  /\ UNCHANGED <<symVars, countVars, penaltyVars, sqlVars, newtonVars, sm, xs, argFitIntercept,
                 argNormalize, sufficient_stats, data>>

\* Called as compute_ridge_coefs calls it (444-445), with m.fit_intercept.
CallConstructMatrix ==
  /\ called = "none"
  /\ called' = "construct_matrix_from_elements"
  /\ statsOut' = construct_matrix_from_elements(sufficient_stats, Len(xs),
                                                sm.fit_intercept)
  /\ UNCHANGED <<symVars, countVars, penaltyVars, sqlVars, newtonVars, sm, xs, argFitIntercept,
                 argNormalize, sufficient_stats, data>>

CallComputeRidgeCoefs ==
  /\ called = "none"
  /\ called' = "compute_ridge_coefs"
  /\ statsOut' = compute_ridge_coefs(sufficient_stats, xs, sm)
  /\ UNCHANGED <<symVars, countVars, penaltyVars, sqlVars, newtonVars, sm, xs, argFitIntercept,
                 argNormalize, sufficient_stats, data>>

\* compute_on_sql_magic_mode of the model's class.
CallMagicFit ==
  /\ called = "none"
  /\ called' = "compute_on_sql_magic_mode"
  /\ statsOut' = IF sm.class = "LinearRegression" THEN LinearMagicFit(sm, xs)
                 ELSE RidgeMagicFit(sm, xs)
  /\ UNCHANGED <<symVars, countVars, penaltyVars, sqlVars, newtonVars, sm, xs, argFitIntercept,
                 argNormalize, sufficient_stats, data>>

\* The local fit of the model on the table of one group.
CallCompute ==
  /\ called = "none"
  /\ called' = "compute"
  /\ statsOut' = compute(sm, xs)
  /\ UNCHANGED <<symVars, countVars, penaltyVars, sqlVars, newtonVars, sm, xs, argFitIntercept,
                 argNormalize, sufficient_stats, data>>

NextStats ==
  \/ CallCompute
  \/ CallGetSufficientStats
  \/ CallConstructMatrix
  \/ CallComputeRidgeCoefs
  \/ CallMagicFit

SpecStats == InitStats /\ [][NextStats]_vars

----------------------------------------------------------------------------
(* Claims about the sufficient statistics and the closed-form fit *)

\* C15: construct_matrix_from_elements raises ValueError for a table of more
\* than one row and for an input that is neither a table nor a Series; when it
\* returns, the input was one row or a one-row table and the matrices hold
\* that row's values.
C15_ConstructNeedsOneRow ==
  called = "construct_matrix_from_elements" =>
    /\ (sufficient_stats.type = "DataFrame" /\ sufficient_stats.len > 1) =>
         statsOut = ErrorOut("ValueError", "Only support 1D input!")
    /\ sufficient_stats.type \notin {"DataFrame", "Series"} =>
         statsOut = ErrorOut("ValueError", "The input must be a panda Series!")
    /\ statsOut.kind = "return" =>
         /\ \/ sufficient_stats.type = "Series"
            \/ sufficient_stats.type = "DataFrame" /\ sufficient_stats.len = 1
         /\ statsOut.index = 1
         /\ \A i \in 1..Len(xs) :
              statsOut.x_t_y[i + (IF sm.fit_intercept THEN 1 ELSE 0)]
                = DataValue(CrossName(i - 1), 1)

\* A table of two rows was refused.
C15_Witness_TwoRowsRefused ==
  /\ called = "construct_matrix_from_elements"
  /\ sufficient_stats.type = "DataFrame"
  /\ sufficient_stats.len = 2
  /\ statsOut.kind = "raise"

\* C16: compute_ridge_coefs given a statistics table of more than one row
\* raises; it does not return coefficients computed from one of the rows.
C16_RidgeCoefsRefuseManyRows ==
  (/\ called = "compute_ridge_coefs"
   /\ sufficient_stats.type = "DataFrame"
   /\ sufficient_stats.len > 1) => statsOut.kind = "raise"

PairsOf(cols) == SelectSeq(cols, IsPair)

\* C17: the statistics query holds exactly n(n+1)/2 pairwise columns for n
\* features, x{i}x{j} for 0 <= i <= j < n, each once and row by row; these
\* are the names construct_matrix_from_elements reads, in the same order.
C17_PairwiseColumns ==
  called = "get_sufficient_stats_elements" =>
    LET n == Len(xs)
        pairs == PairsOf(statsOut.query)
    IN /\ Len(pairs) * 2 = n * (n + 1)
       /\ \A i, j \in 0..(n - 1) :
            i <= j => pairs[PackedPos(i + 1, j + 1, n)] = PairName(i, j)
       /\ \A p, q \in 1..Len(pairs) : pairs[p] = pairs[q] => p = q
       /\ pairs = PairsOf(ReadColumns(n, sm.fit_intercept).x_t_x)

\* Three features gave six pairwise columns, the last one x2x2.
C17_Witness_ThreeFeatures ==
  /\ called = "get_sufficient_stats_elements"
  /\ Len(xs) = 3
  /\ Len(PairsOf(statsOut.query)) = 6
  /\ PairsOf(statsOut.query)[6] = PairName(2, 2)

Returned(name) == \E p \in 1..Len(statsOut.returned) : statsOut.returned[p] = name

\* C18: the statistics returned hold the feature means x0..x{n-1} and the
\* response mean y exactly when the effective fit_intercept (the argument, or
\* the model's when the argument is None) is true.
C18_MeansIffEffectiveFitIntercept ==
  called = "get_sufficient_stats_elements" =>
    /\ Returned(YName) <=> EffectiveFitIntercept(sm, argFitIntercept)
    /\ \A i \in 0..(Len(xs) - 1) :
         Returned(MeanName(i)) <=> EffectiveFitIntercept(sm, argFitIntercept)

IsZeroMatrix(mat) == \A i, j \in 1..Len(mat) : mat[i][j] = 0

\* C20: the pushdown fit of a LinearRegression is the pushdown fit of the Ridge
\* with alpha 0 and the same fit_intercept and normalize: the same queries,
\* the same statistics columns and the same system of equations, whose penalty
\* is zero in the normalized and in the plain branch; a Ridge with alpha 0
\* adds a zero penalty too.
C20_LinearIsRidgeAlphaZero ==
  called = "compute_on_sql_magic_mode" =>
    /\ sm.class = "LinearRegression" =>
         /\ statsOut = RidgeMagicFit(
              NewRidge(sm.where, sm.descendants_sql, 0, sm.fit_intercept, sm.normalize),
              xs)
         /\ statsOut.coefs.kind = "return"
         /\ IsZeroMatrix(statsOut.coefs.penalty.num)
    /\ (sm.class = "Ridge" /\ sm.alpha = 0) =>
         /\ statsOut.coefs.kind = "return"
         /\ IsZeroMatrix(statsOut.coefs.penalty.num)

\* A LinearRegression with an intercept and normalize was fitted through the
\* normalized branch.
C20_Witness_NormalizedLinear ==
  /\ called = "compute_on_sql_magic_mode"
  /\ sm.class = "LinearRegression"
  /\ statsOut.coefs.kind = "return"
  /\ statsOut.coefs.branch = "normalized"
  /\ Len(xs) > 1

\* C21: in the plain (non-normalized) solve of a Ridge with an intercept, the
\* matrix solved differs from the statistics' matrix by alpha / n_obs on the
\* diagonal entry of every feature and nowhere else: row and column 0 (the
\* intercept) and every off-diagonal entry are unchanged.
C21_InterceptNotPenalized ==
  (/\ called = "compute_ridge_coefs"
   /\ sm.class = "Ridge"
   /\ sm.fit_intercept
   /\ statsOut.kind = "return"
   /\ statsOut.branch = "plain") =>
    /\ statsOut.solved.den = data.n_obs
    /\ Len(statsOut.solved.num) = Len(xs) + 1
    /\ \A i, j \in 1..(Len(xs) + 1) :
         statsOut.solved.num[i][j] - data.n_obs * statsOut.x_t_x[i][j]
           = IF i = j /\ i > 1 THEN sm.alpha ELSE 0

\* A Ridge with a positive alpha, an intercept and two features was solved in
\* the plain branch.
C21_Witness_PenalizedRidge ==
  /\ called = "compute_ridge_coefs"
  /\ sm.class = "Ridge"
  /\ sm.alpha > 0
  /\ sm.fit_intercept
  /\ Len(xs) = 2
  /\ statsOut.kind = "return"
  /\ statsOut.branch = "plain"
  /\ statsOut.solved.num[2][2] # data.n_obs * statsOut.x_t_x[2][2]

\* The model with the normalize flag set the other way.
OtherNormalize(m) == [m EXCEPT !.normalize = ~m.normalize]

\* C23: without an intercept the normalize flag changes nothing: the local fit
\* and the pushdown solve take the same steps and give the same result as for
\* the model with the flag set the other way, the local fit works on the
\* unscaled regressors, and get_sufficient_stats_elements called without a
\* normalize argument issues the statistics query alone, with no average or
\* norm query.
C23_NormalizeIgnoredWithoutIntercept ==
  ~sm.fit_intercept =>
    /\ called = "compute" =>
         /\ statsOut = compute(OtherNormalize(sm), xs)
         /\ statsOut.fitted_on = "x" /\ statsOut.coef = "coef_"
    /\ called = "compute_ridge_coefs" =>
         /\ statsOut = compute_ridge_coefs(sufficient_stats, xs, OtherNormalize(sm))
         /\ statsOut.kind = "return" => statsOut.branch = "plain"
    /\ (called = "get_sufficient_stats_elements" /\ argNormalize = None) =>
         /\ statsOut.queries = <<Query("stats", "split_by")>>
         /\ statsOut.zeroed = <<>>

\* A model that asks for normalization but has no intercept has been fitted
\* locally.
C23_Witness_NormalizeWithoutIntercept ==
  /\ called = "compute"
  /\ sm.normalize /\ ~sm.fit_intercept
  /\ statsOut.kind = "return"
  /\ Len(statsOut.names) = Len(xs)

----------------------------------------------------------------------------
(* count_features, models.py 887-905 *)

\* A Quantile metric holds 1..MaxQuantiles quantiles.
MaxQuantiles == 2

\* A metric (or a constant standing where a metric may stand): its class, its
\* children, and the attributes count_features reads.
Node(type, children, kk, fit_intercept, confidence, one_quantile, quantile) ==
  [type |-> type, children |-> children, k |-> kk, fit_intercept |-> fit_intercept,
   confidence |-> confidence, one_quantile |-> one_quantile, quantile |-> quantile]

Leaf(type) == Node(type, <<>>, 0, FALSE, FALSE, FALSE, 0)

\* Metrics without metric children: a plain metric, a constant operand, a
\* Quantile (one quantile, or a list of them), and a Model (whose width does
\* not depend on its children).
Leaves ==
  {Leaf("Metric"), Leaf("constant")}
  \cup {Node("Quantile", <<>>, 0, FALSE, FALSE, TRUE, 1)}
  \cup {Node("Quantile", <<>>, 0, FALSE, FALSE, FALSE, q) : q \in 1..MaxQuantiles}
  \cup {Node("Model", <<>>, kk, fi, FALSE, FALSE, 0) : kk \in 1..MaxFeatures, fi \in BOOLEAN}

\* The metrics built in one step from children in A (first child) and B.
Over(A, B) ==
  {Node("MetricList", <<>>, 0, FALSE, FALSE, FALSE, 0)}
  \cup {Node("MetricList", <<a>>, 0, FALSE, FALSE, FALSE, 0) : a \in A}
  \cup {Node("MetricList", <<a, b>>, 0, FALSE, FALSE, FALSE, 0) : a \in A, b \in B}
  \cup {Node("MetricWithCI", <<a>>, 0, FALSE, c, FALSE, 0) : a \in A, c \in BOOLEAN}
  \cup {Node("Operation", <<a>>, 0, FALSE, FALSE, FALSE, 0) : a \in A}
  \cup {Node("CompositeMetric", <<a, b>>, 0, FALSE, FALSE, FALSE, 0) : a \in A, b \in B}

Metrics == Leaves \cup Over(Leaves, Leaves) \cup Over(Over(Leaves, Leaves), Leaves)

MaxOf(widths) ==
  CHOOSE v \in {widths[p] : p \in 1..Len(widths)} :
    \A p \in 1..Len(widths) : widths[p] <= v

CompositeWidth_Sum(widths) == SumSeq(widths)
\* Line 900: max([count_features(i) for i in m.children]).
CompositeWidth(widths) == MaxOf(widths)

\* The isinstance tests in their order: Model, MetricList, MetricWithCI,
\* Operation, CompositeMetric, Quantile, anything else.
RECURSIVE count_features(_)
count_features(m) ==
  IF m.type = "Model" THEN m.k
  ELSE IF m.type = "MetricList"
  THEN SumSeq([p \in 1..Len(m.children) |-> count_features(m.children[p])])
  ELSE IF m.type = "MetricWithCI"
  THEN IF m.confidence THEN count_features(m.children[1]) * 3
       ELSE count_features(m.children[1]) * 2
  ELSE IF m.type = "Operation" THEN count_features(m.children[1])
  ELSE IF m.type = "CompositeMetric"
  THEN CompositeWidth([p \in 1..Len(m.children) |-> count_features(m.children[p])])
  ELSE IF m.type = "Quantile"
  THEN IF m.one_quantile THEN 1 ELSE m.quantile
  ELSE 1

InitCount ==
  /\ tril_elements = <<>>
  /\ symOut = NotCalled
  /\ IdleSql
  /\ IdleNewton
  /\ IdleStats
  /\ IdlePenalty
  /\ metric \in Metrics
  /\ countOut = <<>>

CallCountFeatures ==
  /\ countOut = <<>>
  /\ countOut' = <<count_features(metric)>>
  /\ UNCHANGED <<symVars, sqlVars, newtonVars, statsVars, penaltyVars, metric>>

NextCount == CallCountFeatures

SpecCount == InitCount /\ [][NextCount]_vars

----------------------------------------------------------------------------
(* Claims about count_features *)

ChildWidths == [p \in 1..Len(metric.children) |-> count_features(metric.children[p])]

\* The rules for the classes named by the statement, with the composite rule
\* read as a sum or as a maximum.
WidthRules(compositeSums) ==
  countOut # <<>> =>
    /\ metric.type = "MetricList" => countOut[1] = SumSeq(ChildWidths)
    /\ metric.type = "CompositeMetric" =>
         countOut[1] = IF compositeSums THEN SumSeq(ChildWidths) ELSE MaxOf(ChildWidths)
    /\ metric.type = "MetricWithCI" =>
         countOut[1] = ChildWidths[1] * (IF metric.confidence THEN 3 ELSE 2)
    /\ metric.type = "Quantile" =>
         countOut[1] = IF metric.one_quantile THEN 1 ELSE metric.quantile
    /\ metric.type \in {"Metric", "constant"} => countOut[1] = 1

\* C22 as stated: a composite metric has the sum of its children's widths.
C22_Original_CompositeSums == WidthRules(TRUE)

\* C22: count_features follows the rules of the statement, except that a
\* composite metric has the largest of its children's widths; a Model has
\* width k and any other operation the width of its first child.
C22_WidthRules ==
  /\ WidthRules(FALSE)
  /\ countOut # <<>> =>
       /\ metric.type = "Model" => countOut[1] = metric.k
       /\ metric.type = "Operation" => countOut[1] = ChildWidths[1]

\* A composite of a two-column list and a plain metric has width 2.
C22_Witness_CompositeOfListAndMetric ==
  /\ countOut = <<2>>
  /\ metric.type = "CompositeMetric"
  /\ metric.children[1].type = "MetricList"
  /\ Len(metric.children[1].children) = 2
  /\ metric.children[2].type = "Metric"

\* C30: for a Model, count_features is the number of columns of the
\* coefficient table: k + 1 with an intercept, k without.
C30_ModelWidthIsResultWidth ==
  (countOut # <<>> /\ metric.type = "Model") =>
    countOut[1] = Len(CoefNames([i \in 1..metric.k |-> FeatureName(i - 1)],
                                metric.fit_intercept))

----------------------------------------------------------------------------
(* The penalty terms of the logistic pushdown fit:                           *)
(* get_grads_and_hess_query, models.py 762-827                               *)

\* Lines 685-687: the regressors of get_data, then '1' when there is an
\* intercept.
InterceptName == <<"1">>
LogisticXs(m) ==
  [i \in 1..m.k |-> FeatureName(i - 1)]
  \o (IF m.fit_intercept THEN <<InterceptName>> ELSE <<>>)

\* np.arange(start, stop, -1): start, start - 1, ... down to stop + 1.
Arange(start, stop) ==
  IF start > stop THEN [p \in 1..(start - stop) |-> start - p + 1] ELSE <<>>

\* ndarray.cumsum()
Cumsum(a) == [p \in 1..Len(a) |-> SumSeq(SubSeq(a, 1, p))]

HessDiagIdx_ThroughIntercept(m, nxs) == <<0>> \o Cumsum(Arange(nxs, nxs - m.k))
\* Lines 808-809 and 817-818: np.arange(len(xs), len(xs) - self.k + 1,
\* -1).cumsum() behind a leading 0.
HessDiagIdx(m, nxs) == <<0>> \o Cumsum(Arange(nxs, nxs - m.k + 1))

\* SIGN(coef[i])
Sign(v) == IF v > 0 THEN 1 ELSE IF v < 0 THEN -1 ELSE 0

\* Line 802: n counts the rows of the group, or all rows.
CountOf(cnd) == IF cnd = None THEN "COUNT(*)" ELSE "COUNTIF(condition)"

NoTerm == [term |-> "none"]

\* Lines 803-816: the term added to grads[i] (i from 0) for i in range(self.k).
GradTerm(m, c, i, cnd) ==
  IF i >= m.k \/ m.penalty = "none" THEN NoTerm
  ELSE IF m.penalty = "l1"
  THEN [term |-> "SIGN(coef) / n / c", of |-> Sign(c[i + 1]), n |-> CountOf(cnd)]
  ELSE IF m.penalty = "l2"
  THEN [term |-> "coef / n / c", of |-> c[i + 1], n |-> CountOf(cnd)]
  ELSE [term |-> "(l1 * SIGN(coef) + l2 * coef) / n", of |-> c[i + 1], n |-> CountOf(cnd)]

\* Lines 810 and 819: the term added to hess[p] (p from 0) when p is one of the
\* indices idx; l1 adds none.
HessTerm(m, p, idx, cnd) ==
  IF m.penalty \in {"l2", "elasticnet"} /\ \E q \in 1..Len(idx) : idx[q] = p
  THEN [term |-> IF m.penalty = "l2" THEN "1 / (n * c)" ELSE "l2 / n", n |-> CountOf(cnd)]
  ELSE NoTerm

PenaltyNames == {"l1", "l2", "elasticnet", "none"}

\* Lines 787-827 for one group: a gradient column per x and a Hessian column
\* per pair of xs, row by row, each with the penalty term added to it; an index
\* outside hess, or a penalty that is not known, is an error.
penalized_query(m, c, cnd) ==
  LET x == LogisticXs(m)
      nxs == Len(x)
      pairs == triu_indices(nxs)
      idx == HessDiagIdx(m, nxs)
  IN IF m.penalty \notin PenaltyNames
     THEN [kind |-> "raise", exc |-> Exception("ValueError", "penalty", <<>>)]
     ELSE IF /\ m.penalty \in {"l2", "elasticnet"}
             /\ \E q \in 1..Len(idx) : idx[q] >= Len(pairs)
     THEN [kind |-> "raise", exc |-> Exception("IndexError", "hess_diag_idx", <<>>)]
     ELSE [kind |-> "return",
           grads |-> [i \in 1..nxs |->
                        [x |-> x[i], coef |-> c, cond |-> cnd,
                         penalty |-> GradTerm(m, c, i - 1, cnd)]],
           hess |-> [p \in 1..Len(pairs) |->
                       [x1 |-> x[pairs[p][1] + 1], x2 |-> x[pairs[p][2] + 1],
                        coef |-> c, cond |-> cnd,
                        penalty |-> HessTerm(m, p - 1, idx, cnd)]]]

\* self.penalty, self.k and self.fit_intercept of the model; "ridge" stands for
\* any penalty the fit does not know.
LogisticModels ==
  [penalty : PenaltyNames \cup {"ridge"}, k : 1..MaxFeatures, fit_intercept : BOOLEAN]

InitPenalty ==
  /\ tril_elements = <<>>
  /\ symOut = NotCalled
  /\ IdleSql
  /\ IdleNewton
  /\ IdleStats
  /\ IdleCount
  /\ lr \in LogisticModels
  /\ slice_coef \in [1..Len(LogisticXs(lr)) -> {-1, 0, 1}]
  /\ slice_cond \in {None, <<1>>}
  /\ gradsHess = [kind |-> "none"]

CallGetGradsAndHessQuery ==
  /\ gradsHess.kind = "none"
  /\ gradsHess' = penalized_query(lr, slice_coef, slice_cond)
  /\ UNCHANGED <<symVars, sqlVars, newtonVars, statsVars, countVars, lr, slice_coef,
                 slice_cond>>

NextPenalty == CallGetGradsAndHessQuery

SpecPenalty == InitPenalty /\ [][NextPenalty]_vars

----------------------------------------------------------------------------
(* Claims about the penalty terms *)

\* The packed position of the diagonal entry of coefficient i (from 0) among
\* nxs coefficients.
PackedDiagonal(i, nxs) == i * nxs - (i * (i - 1)) \div 2

\* C28: with the l2 or elasticnet penalty and K = len(xs) coefficients, the
\* Hessian columns that carry a penalty term are exactly those at the packed
\* positions i*K - i(i-1)/2 for i = 0..k-1, which are the diagonal entries of
\* the k features: no off-diagonal entry and not the diagonal entry of the
\* intercept '1'; the gradient columns that carry a penalty term are exactly
\* those of the k features. The call does not fail.
C28_PenaltyOnFeatureDiagonalsOnly ==
  (gradsHess.kind # "none" /\ lr.penalty \in {"l2", "elasticnet"}) =>
    /\ gradsHess.kind = "return"
    /\ Len(gradsHess.grads) = lr.k + (IF lr.fit_intercept THEN 1 ELSE 0)
    /\ \A p \in 1..Len(gradsHess.hess) :
         /\ gradsHess.hess[p].penalty # NoTerm
              <=> \E i \in 0..(lr.k - 1) : p - 1 = PackedDiagonal(i, Len(gradsHess.grads))
         /\ gradsHess.hess[p].penalty # NoTerm
              <=> /\ gradsHess.hess[p].x1 = gradsHess.hess[p].x2
                  /\ gradsHess.hess[p].x1 # InterceptName
    /\ \A i \in 1..Len(gradsHess.grads) :
         gradsHess.grads[i].penalty # NoTerm <=> gradsHess.grads[i].x # InterceptName

\* Three features and an intercept under the l2 penalty: positions 0, 4 and 7
\* of the ten Hessian columns are penalized, position 9 (the intercept) is not.
C28_Witness_ThreeFeaturesWithIntercept ==
  /\ gradsHess.kind = "return"
  /\ lr.penalty = "l2" /\ lr.k = 3 /\ lr.fit_intercept
  /\ Len(gradsHess.hess) = 10
  /\ gradsHess.hess[8].penalty # NoTerm
  /\ gradsHess.hess[10].penalty = NoTerm

====
